---- MODULE Spec2Model ----
(***************************************************************************)
(* A model of magicformulabr (src/src/magicformulabr/main.py): the        *)
(* DataSourceHandler (fetch, age-based cache) and the MagicFormula        *)
(* ranking engine (percentage conversion, filtering, tie-aware ranking).  *)
(*                                                                         *)
(* A pandas DataFrame is a record                                          *)
(*   [columns : set of column names,                                       *)
(*    index   : sequence of row labels (the "Papel" tickers), in row order,*)
(*    data    : [label -> [column -> cell]]]                               *)
(* and a cell is [kind |-> "num", v |-> integer]  (a number) or            *)
(*               [kind |-> "str", v |-> sequence of characters] (a text).  *)
(* Numbers produced by pct_to_float are held in hundredths.                *)
(***************************************************************************)
EXTENDS Integers, Sequences, FiniteSets, TLC

VARIABLES
    pd_df,      \* the DataFrame object: main's pd_df, MagicFormula.pd_df and ranked_df alias it
    method,     \* args.method / magic_method
    lastop,     \* the last MagicFormula method that was called
    before,     \* history: the value of pd_df when that method was called
    err,        \* the exception the last call raised, or "none"
    trace,      \* history: the pipeline stages that ran to completion, in order
    calls,      \* history: the MagicFormula methods called on the instance, in order
    arg_df,     \* the table seen through the reference the caller gave MagicFormula(pd_df, ...)
    script,     \* the MagicFormula methods the client has still to call, in order
    pc,         \* where main() is: "idle" (no run), "get_data", "fetching", "process", "output"
    force_update,   \* args.force_update / DataSourceHandler.force_update
    now,        \* time.time(), in seconds
    cache,      \* the cache file: [exists, content, mtime]
    cache0,     \* history: the cache file when the run started
    t_check,    \* history: the time at which get_data decided to fetch or to load
    http_requests,  \* history: the HTTP requests the run has issued
    fetch_result,   \* history: "none", "error", "empty" or "table"
    fetched,    \* history: the table fetch_data returned
    exit_code,  \* the exit status of the run, -1 while there is none
    stdout,     \* what the run printed: "none", "message" or "table"
    runs,       \* the number of runs started
    ticks,      \* the number of times the clock has advanced
    cache_init, \* history: the cache file before the first run
    fetches     \* history: the tables fetch_data has returned and get_data has accepted

mfvars == <<pd_df, method, lastop, before, err, trace, calls, arg_df>>
runvars == <<pc, force_update, cache0, t_check, http_requests, fetch_result, fetched,
             exit_code, stdout, runs>>
vars == <<mfvars, script, runvars, now, cache, ticks, cache_init, fetches>>

(***************************************************************************)
(* Bounds of the model.                                                    *)
(***************************************************************************)
MaxRows == 3
MaxRuns == 2
MaxTicks == 2

(***************************************************************************)
(* Cells, columns, tables.                                                 *)
(***************************************************************************)
Num(n) == [kind |-> "num", v |-> n]
Str(s) == [kind |-> "str", v |-> s]

Range(s) == {s[i] : i \in 1..Len(s)}

MAGIC_METHOD_FIELD ==
    [m \in 1..3 |->
        CASE m = 1 -> [earnings_yield |-> "P/L", ret_on_capital |-> "ROE"]
          [] m = 2 -> [earnings_yield |-> "EV/EBIT", ret_on_capital |-> "ROIC"]
          [] m = 3 -> [earnings_yield |-> "EV/EBITDA", ret_on_capital |-> "ROIC"]]

SourceColumns == {"P/L", "EV/EBIT", "EV/EBITDA", "ROE", "ROIC", "Liq.2meses"}
RankColumns == {"Rank_earnings_yield", "Rank_return_on_capital", "Rank_Final"}

EmptyFrame == [columns |-> SourceColumns, index |-> <<>>, data |-> <<>>]

empty(df) == df.index = <<>>

(***************************************************************************)
(* pct_to_float: float(number.strip("%").replace(".", "").replace(",", "."))*)
(***************************************************************************)
RECURSIVE lstrip(_, _)
lstrip(s, ch) == IF s # <<>> /\ Head(s) = ch THEN lstrip(Tail(s), ch) ELSE s

RECURSIVE rstrip(_, _)
rstrip(s, ch) ==
    IF s # <<>> /\ s[Len(s)] = ch THEN rstrip(SubSeq(s, 1, Len(s) - 1), ch) ELSE s

strip(s, ch) == rstrip(lstrip(s, ch), ch)

RECURSIVE replace(_, _, _)
replace(s, old, new) ==
    IF s = <<>> THEN <<>>
    ELSE (IF Head(s) = old THEN new ELSE <<Head(s)>>) \o replace(Tail(s), old, new)

DigitChars == {"0", "1", "2", "3", "4", "5", "6", "7", "8", "9"}

DigitVal(c) ==
    CASE c = "0" -> 0 [] c = "1" -> 1 [] c = "2" -> 2 [] c = "3" -> 3 [] c = "4" -> 4
      [] c = "5" -> 5 [] c = "6" -> 6 [] c = "7" -> 7 [] c = "8" -> 8 [] c = "9" -> 9

RECURSIVE DigitsVal(_)
DigitsVal(s) ==
    IF s = <<>> THEN 0
    ELSE 10 * DigitsVal(SubSeq(s, 1, Len(s) - 1)) + DigitVal(s[Len(s)])

\* The decimal places of a float the model keeps (the source table prints two).
FracDigits == 2

RECURSIVE Pow10(_)
Pow10(n) == IF n = 0 THEN 1 ELSE 10 * Pow10(n - 1)

Unsigned(s) == IF s # <<>> /\ Head(s) \in {"-", "+"} THEN Tail(s) ELSE s

DotAt(s) == IF \E i \in 1..Len(s) : s[i] = "."
            THEN CHOOSE i \in 1..Len(s) : s[i] = "." /\ \A j \in 1..(i - 1) : s[j] # "."
            ELSE Len(s) + 1

IntPart(s) == SubSeq(Unsigned(s), 1, DotAt(Unsigned(s)) - 1)
FracPart(s) == SubSeq(Unsigned(s), DotAt(Unsigned(s)) + 1, Len(Unsigned(s)))

\* float(s) accepts [sign] digits [ "." digits ] with at least one digit; the model
\* holds the result in units of 10^-FracDigits, so it reads texts of up to FracDigits decimals.
float_ok(s) ==
    /\ Range(IntPart(s)) \cup Range(FracPart(s)) \subseteq DigitChars
    /\ Len(IntPart(s)) + Len(FracPart(s)) > 0
    /\ Len(FracPart(s)) <= FracDigits

float(s) ==
    (IF s # <<>> /\ Head(s) = "-" THEN -1 ELSE 1)
    * (DigitsVal(IntPart(s)) * Pow10(FracDigits)
       + DigitsVal(FracPart(s)) * Pow10(FracDigits - Len(FracPart(s))))

pct_text(number) == replace(replace(strip(number.v, "%"), ".", <<>>), ",", <<".">>)

\* The exception pct_to_float raises on this cell, or "none".
pct_to_float_raises(number) ==
    IF number.kind # "str" THEN "AttributeError"
    ELSE IF ~float_ok(pct_text(number)) THEN "ValueError"
    ELSE "none"

pct_to_float(number) == Num(float(pct_text(number)))

(***************************************************************************)
(* MagicFormula._apply_converters                                          *)
(***************************************************************************)
apply_converters(df, m) ==
    LET column == MAGIC_METHOD_FIELD[m].ret_on_capital
        raised == {pct_to_float_raises(df.data[t][column]) : t \in Range(df.index)}
                      \ {"none"}
    IN  IF column \notin df.columns THEN [df |-> df, err |-> "none"]
        ELSE IF raised # {} THEN [df |-> df, err |-> CHOOSE e \in raised : TRUE]
        ELSE [df |-> [df EXCEPT !.data =
                        [t \in Range(df.index) |->
                            [df.data[t] EXCEPT ![column] = pct_to_float(df.data[t][column])]]],
              err |-> "none"]

(***************************************************************************)
(* MagicFormula._remove_rows, MagicFormula._filter_data                    *)
(***************************************************************************)
\* Mutant: the rows strictly below min_value are removed, those equal to it are kept.
remove_rows_strict(df, col_name, min_value) ==
    LET text == \E t \in Range(df.index) : df.data[t][col_name].kind # "num"
        tickers == {t \in Range(df.index) : df.data[t][col_name].v < min_value}
        kept == SelectSeq(df.index, LAMBDA t : t \notin tickers)
    IN  IF text THEN [df |-> df, err |-> "TypeError"]
        ELSE [df |-> [df EXCEPT !.index = kept,
                                !.data = [t \in Range(kept) |-> df.data[t]]],
              err |-> "none"]

\* Series <= min_value raises TypeError when a text cell is compared with a number.
remove_rows(df, col_name, min_value) ==
    LET text == \E t \in Range(df.index) : df.data[t][col_name].kind # "num"
        tickers == {t \in Range(df.index) : df.data[t][col_name].v <= min_value}
        kept == SelectSeq(df.index, LAMBDA t : t \notin tickers)
    IN  IF text THEN [df |-> df, err |-> "TypeError"]
        ELSE [df |-> [df EXCEPT !.index = kept,
                                !.data = [t \in Range(kept) |-> df.data[t]]],
              err |-> "none"]

filter_data(df, m) ==
    LET r1 == remove_rows(df, MAGIC_METHOD_FIELD[m].earnings_yield, 0)
        r2 == remove_rows(r1.df, MAGIC_METHOD_FIELD[m].ret_on_capital, 0)
        r3 == remove_rows(r2.df, "Liq.2meses", 0)
    IN  IF r1.err # "none" THEN r1
        ELSE IF r2.err # "none" THEN r2
        ELSE r3

(***************************************************************************)
(* Series.rank(ascending, method="min") and DataFrame.sort_values          *)
(***************************************************************************)
CharCode(c) ==
    CASE c = "%" -> 37 [] c = "+" -> 43 [] c = "," -> 44 [] c = "-" -> 45 [] c = "." -> 46
      [] OTHER -> 48 + DigitVal(c)

RECURSIVE LexLess(_, _)
LexLess(a, b) ==
    IF b = <<>> THEN FALSE
    ELSE IF a = <<>> THEN TRUE
    ELSE IF Head(a) # Head(b) THEN CharCode(Head(a)) < CharCode(Head(b))
    ELSE LexLess(Tail(a), Tail(b))

\* The order of two cells of one column: numbers by value, texts as str compares.
Less(a, b) == IF a.kind = "num" THEN a.v < b.v ELSE LexLess(a.v, b.v)

Before(a, b, ascending) == IF ascending THEN Less(a, b) ELSE Less(b, a)

RECURSIVE Insert(_, _, _)
Insert(x, s, ascending) ==
    IF s = <<>> THEN <<x>>
    ELSE IF Before(x, Head(s), ascending) THEN <<x>> \o s
    ELSE <<Head(s)>> \o Insert(x, Tail(s), ascending)

RECURSIVE SortedCells(_, _, _, _)
SortedCells(df, idx, col, ascending) ==
    IF idx = <<>> THEN <<>>
    ELSE Insert(df.data[Head(idx)][col], SortedCells(df, Tail(idx), col, ascending), ascending)

\* Mutant: method="first", equal values are ranked in the order of their rows.
rank_first(df, col, ascending) ==
    [t \in Range(df.index) |->
        Num(1 + Cardinality({u \in Range(df.index) :
                  \/ Before(df.data[u][col], df.data[t][col], ascending)
                  \/ /\ df.data[u][col] = df.data[t][col]
                     /\ \E i, j \in 1..Len(df.index) :
                            i < j /\ df.index[i] = u /\ df.index[j] = t}))]

\* Mutant: method="max", a cell's rank is the highest position its value holds.
rank_max(df, col, ascending) ==
    LET sorted == SortedCells(df, df.index, col, ascending)
    IN  [t \in Range(df.index) |->
            Num(CHOOSE i \in 1..Len(sorted) :
                    /\ sorted[i] = df.data[t][col]
                    /\ \A j \in (i + 1)..Len(sorted) : sorted[j] # df.data[t][col])]

\* method="min": a cell's rank is the lowest position its value holds in sorted order.
rank(df, col, ascending) ==
    LET sorted == SortedCells(df, df.index, col, ascending)
    IN  [t \in Range(df.index) |->
            Num(CHOOSE i \in 1..Len(sorted) :
                    /\ sorted[i] = df.data[t][col]
                    /\ \A j \in 1..(i - 1) : sorted[j] # df.data[t][col])]

RECURSIVE OrderingsOf(_)
OrderingsOf(S) ==
    IF S = {} THEN {<<>>}
    ELSE UNION {{<<x>> \o p : p \in OrderingsOf(S \ {x})} : x \in S}

Orderings(idx) == OrderingsOf(Range(idx))

\* sort_values(by, ascending=True) with the default kind="quicksort": the rows come out
\* in non-decreasing order of the key; quicksort is not a stable sort, so the order of
\* rows with equal keys is any order.
sort_values(df, by) ==
    {[df EXCEPT !.index = p] :
        p \in {q \in Orderings(df.index) :
                 \A i, j \in 1..Len(q) :
                    i < j => df.data[q[i]][by].v <= df.data[q[j]][by].v}}

(***************************************************************************)
(* MagicFormula._calculate_rank: the set of tables it can leave in pd_df.  *)
(***************************************************************************)
\* Mutant: the final rank is the earnings-yield rank alone.
rank_final_first_only(rey, rroc) == Num(rey.v)

\* pd_df["Rank_earnings_yield"] + pd_df["Rank_return_on_capital"], row by row.
rank_final(rey, rroc) == Num(rey.v + rroc.v)

\* The three assignments of the rank columns.
rank_columns(df, m) ==
    LET rey == rank(df, MAGIC_METHOD_FIELD[m].earnings_yield, TRUE)
        rroc == rank(df, MAGIC_METHOD_FIELD[m].ret_on_capital, FALSE)
    IN  [df EXCEPT
            !.columns = @ \cup RankColumns,
            !.data = [t \in Range(df.index) |->
                [c \in DOMAIN df.data[t] \cup RankColumns |->
                    CASE c = "Rank_earnings_yield" -> rey[t]
                      [] c = "Rank_return_on_capital" -> rroc[t]
                      [] c = "Rank_Final" -> rank_final(rey[t], rroc[t])
                      [] OTHER -> df.data[t][c]]]]

\* Mutant: no early return for an empty table.
calculate_rank_no_guard(df, m) == sort_values(rank_columns(df, m), "Rank_Final")

calculate_rank(df, m) ==
    IF empty(df) THEN {df}
    ELSE sort_values(rank_columns(df, m), "Rank_Final")

(***************************************************************************)
(* MagicFormula.__init__ stores the reference it is given (self.pd_df =    *)
(* pd_df) and every stage changes that object in place (column assignment, *)
(* drop(inplace=True), sort_values(inplace=True)).                         *)
(***************************************************************************)
\* Mutant: __init__ keeps a copy, the caller's table stays as it was.
arg_after_copy(self_df, arg) == arg

\* The caller's table after a call that left self_df in self.pd_df: the same object.
arg_after(self_df, arg) == self_df

(***************************************************************************)
(* MagicFormula.process: the outcomes [df, err, stages] of one call.       *)
(***************************************************************************)
\* Mutant: process() does not call _filter_data.
process_no_filter(df, m) ==
    LET conv == apply_converters(df, m)
    IN  IF conv.err # "none"
        THEN {[df |-> conv.df, err |-> conv.err, stages |-> <<>>]}
        ELSE {[df |-> r, err |-> "none", stages |-> <<"Normalize", "Rank">>] :
                r \in calculate_rank(conv.df, m)}

process(df, m) ==
    LET conv == apply_converters(df, m)
        filt == filter_data(conv.df, m)
    IN  IF conv.err # "none"
        THEN {[df |-> conv.df, err |-> conv.err, stages |-> <<>>]}
        ELSE IF filt.err # "none"
        THEN {[df |-> filt.df, err |-> filt.err, stages |-> <<"Normalize">>]}
        ELSE {[df |-> r, err |-> "none", stages |-> <<"Normalize", "Filter", "Rank">>] :
                r \in calculate_rank(filt.df, m)}

(***************************************************************************)
(* The tables the Data Source Handler can deliver, within the bounds.      *)
(***************************************************************************)
PctNeg == <<"-", "0", ",", "5", "0", "%">>
PctLow == <<"2", ",", "5", "0", "%">>
PctHigh == <<"1", ".", "0", "0", "0", ",", "0", "0", "%">>

\* Rows that pass every filter criterion ...
PassRows ==
    { [ey |-> 1, roc |-> PctLow, liq |-> 1],
      [ey |-> 1, roc |-> PctHigh, liq |-> 1],
      [ey |-> 2, roc |-> PctLow, liq |-> 1],
      [ey |-> 2, roc |-> PctHigh, liq |-> 1] }

\* ... and rows that fail one of them.
FailRows ==
    { [ey |-> 0, roc |-> PctLow, liq |-> 1],
      [ey |-> 1, roc |-> PctNeg, liq |-> 1],
      [ey |-> 1, roc |-> PctLow, liq |-> 0] }

RowInputs == PassRows \cup FailRows

\* Row t of a table for method m: the method's two columns and the liquidity take the
\* drawn values, the other columns a fixed value.
MkRow(r, m) ==
    [c \in SourceColumns |->
        CASE c = MAGIC_METHOD_FIELD[m].earnings_yield -> Num(r.ey)
          [] c = MAGIC_METHOD_FIELD[m].ret_on_capital -> Str(r.roc)
          [] c = "Liq.2meses" -> Num(r.liq)
          [] c \in {"ROE", "ROIC"} -> Str(<<"1", ",", "0", "0", "%">>)
          [] OTHER -> Num(1)]

MkTable(rows, m) ==
    [columns |-> SourceColumns,
     index |-> [i \in 1..Len(rows) |-> i],
     data |-> [t \in 1..Len(rows) |-> MkRow(rows[t], m)]]

Tables(m, n) == {MkTable(rows, m) : rows \in [1..n -> RowInputs]}

(***************************************************************************)
(* DataSourceHandler: the cache file and the fetch.                        *)
(***************************************************************************)
CACHE_DURATION_SECONDS == 86400

\* DataFrame.to_dict(): {column: {label: value}}; the labels keep the row order.
to_dict(df) ==
    [labels |-> df.index,
     cols |-> [c \in df.columns |-> [t \in Range(df.index) |-> df.data[t][c]]]]

\* DataFrame.from_dict(data): the columns of the dict, the rows in the labels' order.
from_dict(d) ==
    [columns |-> DOMAIN d.cols,
     index |-> d.labels,
     data |-> [t \in Range(d.labels) |-> [c \in DOMAIN d.cols |-> d.cols[c][t]]]]

NoFile == [exists |-> FALSE, content |-> to_dict(EmptyFrame), mtime |-> 0]

\* save_to_cache(pd_df) at time t: open(cache_file, "w"), json.dump(pd_df.to_dict()).
save_to_cache(df, t) == [exists |-> TRUE, content |-> to_dict(df), mtime |-> t]

\* load_from_cache(): json.load, DataFrame.from_dict.
load_from_cache(c) == from_dict(c.content)

\* Mutant: a cache as old as the duration is outdated.
is_cache_valid_ge(c, t) ==
    IF ~c.exists THEN FALSE
    ELSE IF t - c.mtime >= CACHE_DURATION_SECONDS THEN FALSE
    ELSE TRUE

\* is_cache_valid() evaluated at time t on the cache file c.
is_cache_valid(c, t) ==
    IF ~c.exists THEN FALSE
    ELSE IF t - c.mtime > CACHE_DURATION_SECONDS THEN FALSE
    ELSE TRUE

\* Mutant: the "not" is missing.
must_fetch_no_not(force, c, t) == force \/ is_cache_valid(c, t)

\* The condition of get_data's if: "self.force_update or not self.is_cache_valid()".
must_fetch(force, c, t) == force \/ ~is_cache_valid(c, t)

(***************************************************************************)
(* The pages the site can serve, as the tables read_html makes of them.    *)
(***************************************************************************)
SiteTables ==
    { MkTable(<<[ey |-> 1, roc |-> PctLow, liq |-> 1],
                [ey |-> 2, roc |-> PctHigh, liq |-> 1],
                [ey |-> 0, roc |-> PctHigh, liq |-> 1]>>, 2),
      MkTable(<<[ey |-> 1, roc |-> PctNeg, liq |-> 1],
                [ey |-> 2, roc |-> PctNeg, liq |-> 1]>>, 2),
      MkTable(<<[ey |-> 2, roc |-> PctHigh, liq |-> 1],
                [ey |-> 1, roc |-> PctLow, liq |-> 0]>>, 1) }

\* The clock advances by a second, or to just before or exactly one cache lifetime later.
TimeSteps == {1, CACHE_DURATION_SECONDS - 1, CACHE_DURATION_SECONDS}

(***************************************************************************)
(* Spec: runs of main(), one after the other, sharing the cache file.      *)
(***************************************************************************)
Init ==
    /\ pc = "idle"
    /\ runs = 0
    /\ now = 0
    /\ ticks = 0
    /\ cache \in {NoFile} \cup {save_to_cache(t, 0) : t \in SiteTables}
    /\ cache0 = cache
    /\ force_update = FALSE
    /\ method = 2
    /\ pd_df = EmptyFrame
    /\ before = EmptyFrame
    /\ lastop = "__init__"
    /\ err = "none"
    /\ trace = <<>>
    /\ calls = <<>>
    /\ arg_df = EmptyFrame
    /\ cache_init = cache
    /\ fetches = {}
    /\ script = <<>>
    /\ t_check = 0
    /\ http_requests = 0
    /\ fetch_result = "none"
    /\ fetched = EmptyFrame
    /\ exit_code = -1
    /\ stdout = "none"

\* Time passes between runs and while a run waits for the site.
Tick ==
    /\ pc \in {"idle", "fetching"}
    /\ ticks < MaxTicks
    /\ \E d \in TimeSteps : now' = now + d
    /\ ticks' = ticks + 1
    /\ UNCHANGED <<mfvars, script, runvars, cache, cache_init, fetches>>

\* main() starts: parse_parameters(), DataSourceHandler(URL, force_update=...).
Start ==
    /\ pc = "idle"
    /\ runs < MaxRuns
    /\ runs' = runs + 1
    /\ force_update' \in BOOLEAN
    /\ method' \in 1..3
    /\ pc' = "get_data"
    /\ cache0' = cache
    /\ t_check' = now
    /\ http_requests' = 0
    /\ fetch_result' = "none"
    /\ fetched' = EmptyFrame
    /\ exit_code' = -1
    /\ stdout' = "none"
    /\ pd_df' = EmptyFrame
    /\ before' = EmptyFrame
    /\ lastop' = "__init__"
    /\ err' = "none"
    /\ trace' = <<>>
    /\ calls' = <<>>
    /\ arg_df' = EmptyFrame
    /\ UNCHANGED <<script, now, cache, ticks, cache_init, fetches>>

\* get_data(), the if is taken: fetch_data() issues requests.get.
GetDataFetch ==
    /\ pc = "get_data"
    /\ must_fetch(force_update, cache, now)
    /\ t_check' = now
    /\ http_requests' = http_requests + 1
    /\ pc' = "fetching"
    /\ UNCHANGED <<mfvars, script, force_update, cache0, fetch_result, fetched,
                   exit_code, stdout, runs, now, cache, ticks, cache_init, fetches>>

\* Mutant: loading rewrites the cache file.
GetDataLoadTouches ==
    /\ pc = "get_data"
    /\ ~must_fetch(force_update, cache, now)
    /\ t_check' = now
    /\ pd_df' = load_from_cache(cache)
    /\ arg_df' = load_from_cache(cache)
    /\ cache' = save_to_cache(load_from_cache(cache), now)
    /\ pc' = "process"
    /\ UNCHANGED <<method, lastop, before, err, trace, calls, script, force_update, cache0,
                   http_requests, fetch_result, fetched, exit_code, stdout, runs,
                   now, ticks, cache_init, fetches>>

\* get_data(), the if is not taken: return self.load_from_cache().
GetDataLoad ==
    /\ pc = "get_data"
    /\ ~must_fetch(force_update, cache, now)
    /\ t_check' = now
    /\ pd_df' = load_from_cache(cache)
    /\ arg_df' = load_from_cache(cache)
    /\ pc' = "process"
    /\ UNCHANGED <<method, lastop, before, err, trace, calls, script, force_update, cache0,
                   http_requests, fetch_result, fetched, exit_code, stdout, runs,
                   now, cache, ticks, cache_init, fetches>>

\* fetch_data(): requests.RequestException (connection error, timeout, HTTP error
\* status from raise_for_status) -> logging.error, sys.exit(1).
FetchFails ==
    /\ pc = "fetching"
    /\ fetch_result' = "error"
    /\ exit_code' = 1
    /\ pc' = "idle"
    /\ UNCHANGED <<mfvars, script, force_update, cache0, t_check, http_requests, fetched,
                   stdout, runs, now, cache, ticks, cache_init, fetches>>

\* Mutant: the table is saved before it is tested for emptiness.
FetchEmptySaves ==
    /\ pc = "fetching"
    /\ fetch_result' = "empty"
    /\ fetched' = EmptyFrame
    /\ cache' = save_to_cache(EmptyFrame, now)
    /\ exit_code' = 1
    /\ pc' = "idle"
    /\ UNCHANGED <<mfvars, script, force_update, cache0, t_check, http_requests,
                   stdout, runs, now, ticks, cache_init, fetches>>

\* fetch_data() returns a table with no rows: get_data logs and calls sys.exit(1).
FetchEmpty ==
    /\ pc = "fetching"
    /\ fetch_result' = "empty"
    /\ fetched' = EmptyFrame
    /\ exit_code' = 1
    /\ pc' = "idle"
    /\ UNCHANGED <<mfvars, script, force_update, cache0, t_check, http_requests,
                   stdout, runs, now, cache, ticks, cache_init, fetches>>

\* Mutant: a forced update returns the fetched table without saving it.
FetchOkForcedNotSaved ==
    /\ pc = "fetching"
    /\ \E t \in SiteTables :
           /\ fetched' = t
           /\ cache' = IF force_update THEN cache ELSE save_to_cache(t, now)
           /\ pd_df' = t
           /\ arg_df' = t
           /\ fetches' = fetches \cup {t}
    /\ fetch_result' = "table"
    /\ pc' = "process"
    /\ UNCHANGED <<method, lastop, before, err, trace, calls, script, force_update, cache0,
                   t_check, http_requests, exit_code, stdout, runs, now, ticks, cache_init>>

\* fetch_data() returns a table with rows: save_to_cache(pd_df); return pd_df.
FetchOk ==
    /\ pc = "fetching"
    /\ \E t \in SiteTables :
           /\ fetched' = t
           /\ cache' = save_to_cache(t, now)
           /\ pd_df' = t
           /\ arg_df' = t
           /\ fetches' = fetches \cup {t}
    /\ fetch_result' = "table"
    /\ pc' = "process"
    /\ UNCHANGED <<method, lastop, before, err, trace, calls, script, force_update, cache0,
                   t_check, http_requests, exit_code, stdout, runs, now, ticks, cache_init>>

\* Mutant: main saves the table process() returned to the cache file.
MainProcessSaves ==
    /\ pc = "process"
    /\ \E r \in process(pd_df, method) :
           /\ pd_df' = r.df
           /\ arg_df' = arg_after(r.df, arg_df)
           /\ err' = r.err
           /\ trace' = trace \o r.stages
           /\ pc' = IF r.err = "none" THEN "output" ELSE "idle"
           /\ exit_code' = IF r.err = "none" THEN exit_code ELSE 1
           /\ cache' = save_to_cache(r.df, now)
    /\ before' = pd_df
    /\ lastop' = "process"
    /\ calls' = Append(calls, "process")
    /\ UNCHANGED <<method, script, force_update, cache0, t_check, http_requests,
                   fetch_result, fetched, stdout, runs, now, ticks, cache_init,
                   fetches>>

\* main(): magicformula = MagicFormula(pd_df, args.method); ranked_df = magicformula.process().
\* An exception process() raises is not caught: the interpreter exits with status 1.
MainProcess ==
    /\ pc = "process"
    /\ \E r \in process(pd_df, method) :
           /\ pd_df' = r.df
           /\ arg_df' = arg_after(r.df, arg_df)
           /\ err' = r.err
           /\ trace' = trace \o r.stages
           /\ pc' = IF r.err = "none" THEN "output" ELSE "idle"
           /\ exit_code' = IF r.err = "none" THEN exit_code ELSE 1
    /\ before' = pd_df
    /\ lastop' = "process"
    /\ calls' = Append(calls, "process")
    /\ UNCHANGED <<method, script, force_update, cache0, t_check, http_requests,
                   fetch_result, fetched, stdout, runs, now, cache, ticks, cache_init,
                   fetches>>

\* main(): if ranked_df.empty: print("No companies passed ...") else: display_results(...).
Output ==
    /\ pc = "output"
    /\ stdout' = IF empty(pd_df) THEN "message" ELSE "table"
    /\ exit_code' = 0
    /\ pc' = "idle"
    /\ UNCHANGED <<mfvars, script, force_update, cache0, t_check, http_requests,
                   fetch_result, fetched, runs, now, cache, ticks, cache_init, fetches>>

Next ==
    \/ Tick
    \/ Start
    \/ GetDataFetch
    \/ GetDataLoad
    \/ FetchFails
    \/ FetchEmpty
    \/ FetchOk
    \/ MainProcess
    \/ Output

Spec == Init /\ [][Next]_vars

(***************************************************************************)
(* SpecMF: a client constructs MagicFormula(pd_df, magic_method) and calls *)
(* its methods; an exception a call raises ends the client.                *)
(***************************************************************************)
\* What clients do with a MagicFormula: main calls process(), the test calls
\* _calculate_rank() alone; the others call process()'s steps one by one, or call again.
ClientScripts ==
    { <<"process">>,
      <<"_calculate_rank">>,
      <<"_apply_converters", "_filter_data", "_calculate_rank">>,
      <<"_apply_converters", "_calculate_rank">>,
      <<"process", "process">>,
      <<"process", "_calculate_rank">> }

InitMF ==
    /\ method \in 1..3
    /\ \E n \in 0..MaxRows : pd_df \in Tables(method, n)
    /\ lastop = "__init__"
    /\ before = pd_df
    /\ err = "none"
    /\ trace = <<>>
    /\ calls = <<>>
    /\ arg_df = pd_df
    /\ cache_init = NoFile
    /\ fetches = {}
    /\ script \in ClientScripts
    /\ pc = "client"
    /\ force_update = FALSE
    /\ now = 0
    /\ cache = NoFile
    /\ cache0 = NoFile
    /\ t_check = 0
    /\ http_requests = 0
    /\ fetch_result = "none"
    /\ fetched = EmptyFrame
    /\ exit_code = -1
    /\ stdout = "none"
    /\ runs = 0
    /\ ticks = 0

ApplyConverters ==
    /\ err = "none"
    /\ script # <<>> /\ Head(script) = "_apply_converters"
    /\ LET r == apply_converters(pd_df, method)
       IN  /\ pd_df' = r.df
           /\ arg_df' = arg_after(r.df, arg_df)
           /\ err' = r.err
           /\ trace' = IF r.err = "none" THEN Append(trace, "Normalize") ELSE trace
    /\ before' = pd_df
    /\ lastop' = "_apply_converters"
    /\ calls' = Append(calls, "_apply_converters")
    /\ script' = Tail(script)
    /\ UNCHANGED <<method, runvars, now, cache, ticks, cache_init, fetches>>

FilterData ==
    /\ err = "none"
    /\ script # <<>> /\ Head(script) = "_filter_data"
    /\ LET r == filter_data(pd_df, method)
       IN  /\ pd_df' = r.df
           /\ arg_df' = arg_after(r.df, arg_df)
           /\ err' = r.err
           /\ trace' = IF r.err = "none" THEN Append(trace, "Filter") ELSE trace
    /\ before' = pd_df
    /\ lastop' = "_filter_data"
    /\ calls' = Append(calls, "_filter_data")
    /\ script' = Tail(script)
    /\ UNCHANGED <<method, runvars, now, cache, ticks, cache_init, fetches>>

CalculateRank ==
    /\ err = "none"
    /\ script # <<>> /\ Head(script) = "_calculate_rank"
    /\ pd_df' \in calculate_rank(pd_df, method)
    /\ arg_df' = arg_after(pd_df', arg_df)
    /\ calls' = Append(calls, "_calculate_rank")
    /\ err' = "none"
    /\ trace' = Append(trace, "Rank")
    /\ before' = pd_df
    /\ lastop' = "_calculate_rank"
    /\ script' = Tail(script)
    /\ UNCHANGED <<method, runvars, now, cache, ticks, cache_init, fetches>>

Process ==
    /\ err = "none"
    /\ script # <<>> /\ Head(script) = "process"
    /\ \E r \in process(pd_df, method) :
           /\ pd_df' = r.df
           /\ arg_df' = arg_after(r.df, arg_df)
           /\ err' = r.err
           /\ trace' = trace \o r.stages
    /\ before' = pd_df
    /\ lastop' = "process"
    /\ calls' = Append(calls, "process")
    /\ script' = Tail(script)
    /\ UNCHANGED <<method, runvars, now, cache, ticks, cache_init, fetches>>

NextMF == ApplyConverters \/ FilterData \/ CalculateRank \/ Process

SpecMF == InitMF /\ [][NextMF]_vars

(***************************************************************************)
(* Properties.                                                             *)
(***************************************************************************)
EyCol == MAGIC_METHOD_FIELD[method].earnings_yield
RocCol == MAGIC_METHOD_FIELD[method].ret_on_capital

Cell(t, c) == pd_df.data[t][c]
Rows == Range(pd_df.index)

\* _calculate_rank has just ranked a table with rows.
JustRanked == err = "none" /\ lastop \in {"_calculate_rank", "process"} /\ ~empty(pd_df)

\* C1: after _calculate_rank on a non-empty table, rows with equal earnings-yield values
\* have equal Rank_earnings_yield, which is 1 + the number of rows with a strictly smaller
\* earnings-yield value; Rank_return_on_capital is 1 + the number of rows with a strictly
\* greater return-on-capital value.
C1_MinRank ==
    JustRanked =>
        \A t \in Rows :
            /\ Cell(t, "Rank_earnings_yield").v
                 = 1 + Cardinality({u \in Rows : Less(Cell(u, EyCol), Cell(t, EyCol))})
            /\ Cell(t, "Rank_return_on_capital").v
                 = 1 + Cardinality({u \in Rows : Less(Cell(t, RocCol), Cell(u, RocCol))})
            /\ \A u \in Rows :
                   Cell(u, EyCol) = Cell(t, EyCol)
                       => Cell(u, "Rank_earnings_yield") = Cell(t, "Rank_earnings_yield")

\* Two rows tie on the earnings yield and a third row ranks after both.
C1_Witness ==
    /\ JustRanked
    /\ \E t, u, w \in Rows :
           /\ t # u
           /\ Cell(t, EyCol) = Cell(u, EyCol)
           /\ Cell(t, "Rank_earnings_yield").v = 1
           /\ Cell(w, "Rank_earnings_yield").v = 3
           /\ Cell(w, "Rank_return_on_capital").v = 1

Pos(seq, x) == CHOOSE k \in 1..Len(seq) : seq[k] = x

\* C2: the table _calculate_rank returns is sorted non-decreasing by Rank_Final, and rows
\* with equal Rank_Final keep the relative order they had before the sort.
C2_SortedStable ==
    JustRanked =>
        \A i, j \in 1..Len(pd_df.index) :
            i < j =>
                /\ Cell(pd_df.index[i], "Rank_Final").v <= Cell(pd_df.index[j], "Rank_Final").v
                /\ Cell(pd_df.index[i], "Rank_Final") = Cell(pd_df.index[j], "Rank_Final")
                      => Pos(before.index, pd_df.index[i]) < Pos(before.index, pd_df.index[j])

\* C3: _filter_data removes exactly the rows whose earnings-yield, return-on-capital or
\* Liq.2meses value is <= 0 and leaves every other row, and the columns, as they were.
Passes(df, t) ==
    /\ df.data[t][EyCol].v > 0
    /\ df.data[t][RocCol].v > 0
    /\ df.data[t]["Liq.2meses"].v > 0

C4_FinalIsSum ==
    JustRanked =>
        \A t \in Rows :
            Cell(t, "Rank_Final").v
                = Cell(t, "Rank_earnings_yield").v + Cell(t, "Rank_return_on_capital").v

\* A row ranked third on one field and first on the other.
C4_Witness ==
    /\ JustRanked
    /\ \E t \in Rows :
           /\ Cell(t, "Rank_earnings_yield").v = 3
           /\ Cell(t, "Rank_return_on_capital").v = 1
           /\ Cell(t, "Rank_Final").v = 4

\* C5: is_cache_valid returns True exactly when the cache file exists and its age, now
\* minus its last-write time, is at most the cache duration.
C5_CacheValidity ==
    /\ is_cache_valid(cache, now)
         = (cache.exists /\ now - cache.mtime <= CACHE_DURATION_SECONDS)
    /\ is_cache_valid(cache0, t_check)
         = (cache0.exists /\ t_check - cache0.mtime <= CACHE_DURATION_SECONDS)

\* The cache file is exactly as old as the duration when get_data looks at it.
C5_Witness ==
    /\ pc = "get_data"
    /\ cache.exists
    /\ now - cache.mtime = CACHE_DURATION_SECONDS

\* get_data has decided whether to fetch.
RunDecided == runs > 0 /\ pc # "get_data"

\* C6, as claimed: a cache file whose age equals the duration is invalid, so get_data
\* without force_update refetches.
C6_BoundaryInvalid ==
    (RunDecided /\ ~force_update /\ cache0.exists
        /\ t_check - cache0.mtime = CACHE_DURATION_SECONDS)
      => http_requests = 1

\* C6, amended: for an existing cache file get_data without force_update decides by the
\* age alone; at an age up to and including the duration it loads the cache and issues no
\* request, at a greater age it fetches.
C6_BoundaryValid ==
    (RunDecided /\ ~force_update /\ cache0.exists) =>
        /\ t_check - cache0.mtime <= CACHE_DURATION_SECONDS
              => (http_requests = 0 /\ fetch_result = "none")
        /\ t_check - cache0.mtime > CACHE_DURATION_SECONDS => http_requests = 1

\* get_data has loaded a cache file exactly as old as the duration.
C6_Witness ==
    /\ pc = "process"
    /\ ~force_update
    /\ cache0.exists
    /\ t_check - cache0.mtime = CACHE_DURATION_SECONDS
    /\ http_requests = 0
    /\ pd_df = load_from_cache(cache0)

\* C7: a fetch that returns a table with rows overwrites the cache file with that table
\* before get_data returns, on a forced update as on a missing or outdated cache; with
\* force_update set get_data fetches even when the cache is valid.
C7_FetchOverwritesCache ==
    /\ fetch_result = "table" =>
          /\ cache.exists
          /\ cache.content = to_dict(fetched)
          /\ load_from_cache(cache) = fetched
          /\ pc \in {"process", "output"} => cache.mtime = now
    /\ (RunDecided /\ force_update) => http_requests = 1

\* A forced update has replaced a valid cache file holding another table.
C7_Witness ==
    /\ pc = "process"
    /\ force_update
    /\ is_cache_valid(cache0, t_check)
    /\ fetch_result = "table"
    /\ cache.content # cache0.content
    /\ cache.mtime > cache0.mtime

\* C8: get_data fetches exactly when force_update is set or is_cache_valid() is False;
\* otherwise it returns the table loaded from the cache, issues no request and leaves
\* the cache file's content and last-write time as they were.
C8_FetchIffNeeded ==
    RunDecided =>
        /\ (http_requests >= 1) = (force_update \/ ~is_cache_valid(cache0, t_check))
        /\ http_requests <= 1
        /\ (~force_update /\ is_cache_valid(cache0, t_check)) =>
              /\ fetch_result = "none"
              /\ cache = cache0
              /\ pc = "process" => pd_df = load_from_cache(cache0)

\* A run has loaded an older cache file and gone on to process it.
C8_Witness ==
    /\ pc = "output"
    /\ http_requests = 0
    /\ cache.exists
    /\ now > cache.mtime
    /\ ~empty(pd_df)

\* C9: when the fetch fails or returns an empty table the run ends with exit code 1, after
\* one request, without writing the cache, running a pipeline stage or printing a result.
C9_FetchFailureIsFatal ==
    fetch_result \in {"error", "empty"} =>
        /\ pc = "idle"
        /\ exit_code = 1
        /\ http_requests = 1
        /\ cache = cache0
        /\ trace = <<>>
        /\ lastop = "__init__"
        /\ stdout = "none"

\* A forced update over an existing cache file got an empty table.
C9_Witness ==
    /\ fetch_result = "empty"
    /\ force_update
    /\ cache0.exists
    /\ exit_code = 1

\* C10: when the table is empty after the Filter stage, process() returns it without the
\* rank columns and raises nothing, and main prints the message, not the table.
C10_EmptyAfterFilter ==
    (lastop = "process" /\ empty(pd_df)) =>
        /\ err = "none"
        /\ trace = <<"Normalize", "Filter", "Rank">>
        /\ pd_df.columns \cap RankColumns = {}
        /\ pd_df.columns = before.columns
        /\ stdout # "table"
        /\ pc = "idle" => (stdout = "message" /\ exit_code = 0)

\* A fetched table with rows lost them all to the filter and the run printed the message.
C10_Witness ==
    /\ lastop = "process"
    /\ ~empty(before)
    /\ empty(pd_df)
    /\ pc = "idle"
    /\ stdout = "message"

\* C11: _calculate_rank run again on a table it has already ranked gives every ticker
\* the same Rank_earnings_yield, Rank_return_on_capital and Rank_Final as the first run.
Reranked ==
    /\ lastop = "_calculate_rank"
    /\ err = "none"
    /\ RankColumns \subseteq before.columns
    /\ ~empty(before)

C11_RankIdempotent ==
    Reranked =>
        /\ Rows = Range(before.index)
        /\ \A t \in Rows : \A c \in RankColumns : Cell(t, c) = before.data[t][c]

\* The second run ranked a table holding a tie on the earnings yield, whose rows the first
\* run's sort had moved, and its own sort moved them again.
C11_Witness ==
    /\ Reranked
    /\ trace = <<"Normalize", "Filter", "Rank", "Rank">>
    /\ pd_df.index # before.index
    /\ before.index # <<1, 2, 3>>
    /\ \E t, u \in Rows : t # u /\ Cell(t, EyCol) = Cell(u, EyCol)

Pipeline == <<"Normalize", "Filter", "Rank">>

IsPrefix(a, b) == Len(a) <= Len(b) /\ a = SubSeq(b, 1, Len(a))

\* C12 as stated: whatever the client calls, the stages applied to the table are a prefix
\* of Normalize, Filter, Rank: none skipped, none reordered, none applied twice.
C12_AnyCallsKeepOrder == IsPrefix(trace, Pipeline)

\* C12: on an instance whose only call is one process(), the stages applied to the table
\* are a prefix of Normalize, Filter, Rank, and all three of them, each once, when the
\* call returns; an instance whose first call is _calculate_rank has applied Rank first.
ProcessedOnce == calls = <<"process">>

C12_ProcessOnceKeepsOrder ==
    /\ ProcessedOnce => /\ IsPrefix(trace, Pipeline)
                        /\ err = "none" => trace = Pipeline
    /\ (calls # <<>> /\ Head(calls) = "_calculate_rank") => (trace # <<>> /\ Head(trace) = "Rank")

\* One process() call normalised, filtered some rows out and ranked the rest.
C12_Witness ==
    /\ ProcessedOnce
    /\ err = "none"
    /\ trace = Pipeline
    /\ RankColumns \subseteq pd_df.columns
    /\ 0 < Len(pd_df.index)
    /\ Len(pd_df.index) < Len(before.index)

\* C13 as stated: the table the caller passed in is, through the caller's reference, the
\* same after process() as before it.
C13_CallerTableUnchanged == ProcessedOnce => arg_df = before

\* C13: after process() the caller's reference shows the table process() returned; for a
\* table with rows that is a changed table: the return-on-capital column holds numbers,
\* and the rank columns are there unless every row was removed.
C13_CallerSeesResult ==
    (ProcessedOnce /\ err = "none") =>
        /\ arg_df = pd_df
        /\ ~empty(before) =>
               /\ arg_df # before
               /\ \A t \in Range(arg_df.index) : arg_df.data[t][RocCol].kind = "num"
               /\ ~empty(arg_df) => RankColumns \subseteq arg_df.columns

\* Through the caller's reference: a row is gone, the rank columns are there and the rows
\* left are in another order than the one they were passed in.
C13_Witness ==
    /\ ProcessedOnce
    /\ err = "none"
    /\ RankColumns \subseteq arg_df.columns
    /\ Len(arg_df.index) = 2
    /\ Len(before.index) = 3
    /\ \E i, j \in 1..3 : /\ i < j
                          /\ before.index[i] = arg_df.index[2]
                          /\ before.index[j] = arg_df.index[1]

\* C14: the cache file is as it was before the first run, or it holds exactly a table that
\* a fetch returned and get_data accepted: never an empty table, never a normalised,
\* filtered or ranked one.
C14_CacheHoldsFetched ==
    \/ cache = cache_init
    \/ /\ cache.exists
       /\ \E t \in fetches : cache.content = to_dict(t)
       /\ LET c == load_from_cache(cache)
          IN  /\ ~empty(c)
              /\ c.columns \cap RankColumns = {}
              /\ \A t \in Range(c.index) : \A col \in {"ROE", "ROIC"} :
                     c.data[t][col].kind = "str"

\* A second run has ranked and shown the table it loaded from the cache file that the
\* first run's fetch had written.
C14_Witness ==
    /\ runs = 2
    /\ pc = "idle"
    /\ stdout = "table"
    /\ fetch_result = "none"
    /\ cache # cache_init
    /\ RankColumns \subseteq pd_df.columns
    /\ load_from_cache(cache) \in fetches

====
